---- MODULE Spec2Model ----
(***************************************************************************)
(* TaxiFareNY fare estimator (src/app.py): a Streamlit script that is run  *)
(* top to bottom once per user interaction.  The model keeps the state     *)
(* that survives a rerun (st.session_state, the widget values, the value   *)
(* each map component reports) and runs the script section by section:     *)
(* sidebar, pickup map, dropoff map, Estimate Fare button, and the answer  *)
(* to the fare request.  An interaction that arrives while the script is   *)
(* running stops that run at its next Streamlit call and starts the next.  *)
(*                                                                         *)
(* Units.  Coordinates are integers in hundredths of a degree              *)
(* (40.75 -> 4075, -73.98 -> -7398).  Instants are whole seconds since     *)
(* 00:00:00 of day 0; a date is a day number, a time of day is seconds     *)
(* since midnight.  Fares are integers in thousandths of a dollar.         *)
(***************************************************************************)
EXTENDS Integers, Sequences, FiniteSets, TLC

VARIABLES session_state, user_date, user_time, passenger_count,
          pick_state, drop_state, button,
          pc, now, date_data, time_data, dt_raw, dt_valid,
          pickup_datetime_formatted,
          pick_marker, drop_marker,
          side_msg, pick_msg, drop_msg, submit_msgs,
          requests, response, before_submit, rendered

vars == <<session_state, user_date, user_time, passenger_count,
          pick_state, drop_state, button,
          pc, now, date_data, time_data, dt_raw, dt_valid,
          pickup_datetime_formatted,
          pick_marker, drop_marker,
          side_msg, pick_msg, drop_msg, submit_msgs,
          requests, response, before_submit, rendered>>

\* Python's None where the value is otherwise a record; an integer local that
\* has not been assigned in this run
None  == [none |-> TRUE]
Unset == 0 - 1

----------------------------------------------------------------------------
(* Constants of the script *)

DEFAULT_LAT == 4075
DEFAULT_LON == -7398

NYC_BOUNDS == [min_lon |-> -7425, max_lon |-> -7370,
               min_lat |-> 4050,  max_lat |-> 4092]

is_within_nyc_inclusive(lon, lat) ==
    /\ NYC_BOUNDS.min_lon <= lon /\ lon <= NYC_BOUNDS.max_lon
    /\ NYC_BOUNDS.min_lat <= lat /\ lat <= NYC_BOUNDS.max_lat

is_within_nyc(lon, lat) ==
    /\ NYC_BOUNDS.min_lon < lon /\ lon < NYC_BOUNDS.max_lon
    /\ NYC_BOUNDS.min_lat < lat /\ lat < NYC_BOUNDS.max_lat

InitialSessionState ==
    [key \in {"pickup_lat", "pickup_lon", "dropoff_lat", "dropoff_lon"} |->
        IF key \in {"pickup_lat", "dropoff_lat"} THEN DEFAULT_LAT
                                                 ELSE DEFAULT_LON]

----------------------------------------------------------------------------
(* Inputs the environment can supply *)

Minute == 60
Hour   == 3600
Day    == 86400

HMS(h, m, s) == h * Hour + m * Minute + s

\* readings of datetime.now(), all on day 0.  It is the system's wall clock,
\* which can be set back, so a run may read any of them after any other.
Instants == { HMS(10, 7, 0), HMS(10, 15, 0), HMS(10, 15, 30), HMS(23, 50, 0) }

\* the date the user can pick instead of today (min_value is today, day 0)
UserDates == { 1 }

\* times of day the user can pick instead of the default
UserTimes == { HMS(10, 6, 0), HMS(10, 8, 0) }

\* slider positions
Passengers == { 1, 2, 8 }

\* points a click on a map can report
ClickPoints ==
    { [lat |-> 4076, lng |-> -7399],      \* inside
      [lat |-> 4051, lng |-> -7424],      \* inside, next to the corner
      [lat |-> 4075, lng |-> -7425],      \* on min_lon
      [lat |-> 4075, lng |-> -7370],      \* on max_lon
      [lat |-> 4050, lng |-> -7398],      \* on min_lat
      [lat |-> 4092, lng |-> -7398],      \* on max_lat
      [lat |-> 4100, lng |-> -7500] }     \* beyond

\* what resp.json() can give for the fare: a number (in thousandths), a
\* string, None, True/False, the floats NaN / Infinity / -Infinity / -0.0,
\* an integer too large for a double, a list or a dict
NumFare(v)      == [t |-> "number", v |-> v]
StrFare(s)      == [t |-> "string", s |-> s]
NullFare        == [t |-> "null"]
BoolFare(b)     == [t |-> "bool", b |-> b]
SpecialFare(x)  == [t |-> "special", x |-> x]
HugeIntFare     == [t |-> "hugeint"]
CompoundFare(c) == [t |-> "compound", c |-> c]

\* a 200 response whose body is the JSON object {"fare": f}
FareBody(f) == [kind |-> "http", status_code |-> 200, json |-> TRUE,
                object |-> TRUE, has_fare |-> TRUE, fare |-> f]

\* outcomes of requests.get
Responses ==
    { [kind |-> "exception", exc |-> "ReadTimeout"],
      [kind |-> "exception", exc |-> "ConnectionError"],
      [kind |-> "http", status_code |-> 500, json |-> FALSE],
      [kind |-> "http", status_code |-> 404, json |-> TRUE, object |-> TRUE,
       has_fare |-> FALSE],
      [kind |-> "http", status_code |-> 200, json |-> FALSE],
      [kind |-> "http", status_code |-> 200, json |-> TRUE, object |-> FALSE],
      [kind |-> "http", status_code |-> 200, json |-> TRUE, object |-> TRUE,
       has_fare |-> FALSE],
      FareBody(NullFare),
      FareBody(NumFare(12500)),
      FareBody(NumFare(7346)),
      FareBody(NumFare(2675)),
      FareBody(StrFare("12.5")),
      FareBody(StrFare("nan")),
      FareBody(StrFare("abc")),
      FareBody(HugeIntFare),
      FareBody(CompoundFare("array")) }

----------------------------------------------------------------------------
(* Sidebar computations *)

\* datetime.date(), datetime.time(), datetime.minute
DateOf(dt)   == dt \div Day
TimeOf(dt)   == dt % Day
MinuteOf(dt) == (dt % Hour) \div Minute

minutes_to_next(n) == (15 - (MinuteOf(n) % 15)) % 15

\* (now + timedelta(minutes=...)).replace(second=0, microsecond=0)
rounded_time(n) ==
    LET t == n + minutes_to_next(n) * Minute
    IN  t - (t % Minute)

\* datetime.datetime.combine(date, time)
Combine(d, t) == d * Day + t

\* strftime("%Y-%m-%d %H:%M:%S"): the date field and the three clock fields
Strftime(dt) ==
    [ymd |-> DateOf(dt),
     H   |-> TimeOf(dt) \div Hour,
     M   |-> MinuteOf(dt),
     S   |-> dt % Minute]

----------------------------------------------------------------------------
(* Init: first page load has not happened yet; session state holds the     *)
(* defaults, no widget has been touched, no map has been clicked.          *)
(* rendered counts the sections that have been drawn on the page so far    *)
(* (sidebar, pickup map, dropoff map, button): what a run has drawn stays  *)
(* on the page, and can be used, until a later run draws it again.         *)

NoLocals ==
    /\ now = Unset /\ date_data = Unset /\ time_data = Unset
    /\ dt_raw = Unset /\ dt_valid = FALSE
    /\ pickup_datetime_formatted = None
    /\ pick_marker = None /\ drop_marker = None
    /\ side_msg = None /\ pick_msg = None /\ drop_msg = None
    /\ submit_msgs = <<>> /\ requests = <<>> /\ response = None

Init ==
    /\ session_state = InitialSessionState
    /\ user_date = Unset
    /\ user_time = Unset
    /\ passenger_count = 2
    /\ pick_state = [last_clicked |-> None]
    /\ drop_state = [last_clicked |-> None]
    /\ button = FALSE
    /\ pc = "sidebar"
    /\ before_submit = None
    /\ rendered = 0
    /\ NoLocals

----------------------------------------------------------------------------
(* User interactions.  Each one changes one widget value and makes         *)
(* Streamlit rerun the script from the top; what the previous run drew is  *)
(* discarded.  A run still in progress is abandoned where it stands: the   *)
(* sections it has not reached do not run, and a fare request it has sent  *)
(* is never answered on the page.                                          *)

\* what the form holds
Snapshot ==
    [session_state |-> session_state, user_date |-> user_date,
     user_time |-> user_time, passenger_count |-> passenger_count]

StartRerun(pressed) ==
    /\ pc' = "sidebar"
    /\ button' = pressed
    /\ before_submit' = None
    /\ now' = Unset /\ date_data' = Unset /\ time_data' = Unset
    /\ dt_raw' = Unset /\ dt_valid' = FALSE
    /\ pickup_datetime_formatted' = None
    /\ pick_marker' = None /\ drop_marker' = None
    /\ side_msg' = None /\ pick_msg' = None /\ drop_msg' = None
    /\ submit_msgs' = <<>> /\ requests' = <<>> /\ response' = None
    /\ UNCHANGED <<session_state, rendered>>

ClickPickup(p) ==
    /\ rendered >= 2
    /\ StartRerun(FALSE)
    /\ pick_state' = [last_clicked |-> p]
    /\ UNCHANGED <<drop_state, user_date, user_time, passenger_count>>

ClickDropoff(p) ==
    /\ rendered >= 3
    /\ StartRerun(FALSE)
    /\ drop_state' = [last_clicked |-> p]
    /\ UNCHANGED <<pick_state, user_date, user_time, passenger_count>>

SetDate(d) ==
    /\ rendered >= 1
    /\ StartRerun(FALSE)
    /\ user_date' = d
    /\ UNCHANGED <<pick_state, drop_state, user_time, passenger_count>>

SetTime(t) ==
    /\ rendered >= 1
    /\ StartRerun(FALSE)
    /\ user_time' = t
    /\ UNCHANGED <<pick_state, drop_state, user_date, passenger_count>>

SetPassengers(n) ==
    /\ rendered >= 1
    /\ StartRerun(FALSE)
    /\ passenger_count' = n
    /\ UNCHANGED <<pick_state, drop_state, user_date, user_time>>

PressButton ==
    /\ rendered >= 4
    /\ StartRerun(TRUE)
    /\ UNCHANGED <<pick_state, drop_state, user_date, user_time,
                   passenger_count>>

----------------------------------------------------------------------------
(* The script, section by section *)

\* A date or time widget returns what the user picked, or its default (today,
\* the rounded time) while the user has picked nothing: user_date and
\* user_time are Unset until then.

DtValidStrict(raw, n) == raw > n

DtValid(raw, n) == raw >= n

TimeError == [level |-> "error", text |-> "Time must be in the future."]

Sidebar ==
    /\ pc = "sidebar"
    /\ \E n \in Instants :
         /\ LET d   == IF user_date = Unset THEN DateOf(n) ELSE user_date
                t   == IF user_time = Unset THEN TimeOf(rounded_time(n))
                                           ELSE user_time
                raw == Combine(d, t)
            IN  /\ now' = n
                /\ date_data' = d
                /\ time_data' = t
                /\ dt_raw' = raw
                /\ dt_valid' = DtValid(raw, n)
                /\ side_msg' = IF DtValid(raw, n) THEN None ELSE TimeError
                /\ pickup_datetime_formatted' = Strftime(raw)
    /\ pc' = "pickup"
    /\ rendered' = IF rendered < 1 THEN 1 ELSE rendered
    /\ UNCHANGED <<session_state, user_date, user_time, passenger_count,
                   pick_state, drop_state, button, pick_marker, drop_marker,
                   pick_msg, drop_msg, submit_msgs, requests, response,
                   before_submit>>

\* the map component reported a click
Clicked(state) == state.last_clicked # None

HandleClickUnchecked(ss, state, latkey, lonkey) ==
    IF Clicked(state)
    THEN [ss EXCEPT ![latkey] = state.last_clicked.lat,
                    ![lonkey] = state.last_clicked.lng]
    ELSE ss

HandleClickLatOnly(ss, state, latkey, lonkey) ==
    IF /\ Clicked(state)
       /\ is_within_nyc(state.last_clicked.lng, state.last_clicked.lat)
    THEN [ss EXCEPT ![latkey] = state.last_clicked.lat]
    ELSE ss

\* lines 170-176 / 206-212: the session state after the click handler
HandleClick(ss, state, latkey, lonkey) ==
    IF /\ Clicked(state)
       /\ is_within_nyc(state.last_clicked.lng, state.last_clicked.lat)
    THEN [ss EXCEPT ![latkey] = state.last_clicked.lat,
                    ![lonkey] = state.last_clicked.lng]
    ELSE ss

\* lines 177-178 / 213-214: the error the click handler shows, if any
ClickMessage(state, text) ==
    IF /\ Clicked(state)
       /\ ~is_within_nyc(state.last_clicked.lng, state.last_clicked.lat)
    THEN text
    ELSE None

PickupError  == [level |-> "error", text |-> "Selected pickup is outside NYC."]
DropoffError == [level |-> "error", text |-> "Selected dropoff is outside NYC."]

\* The reverse-geocoding caption drawn under each map (lines 180-184 and
\* 216-220) reads the session state and writes nothing the script reads
\* again; it is not part of the state.

\* folium.Marker([lat, lon]) built from the session state
Marker(ss, latkey, lonkey) == [lat |-> ss[latkey], lon |-> ss[lonkey]]

PickupMap ==
    /\ pc = "pickup"
    /\ pick_marker' = Marker(session_state, "pickup_lat", "pickup_lon")
    /\ session_state' =
           HandleClick(session_state, pick_state, "pickup_lat", "pickup_lon")
    /\ pick_msg' = ClickMessage(pick_state, PickupError)
    /\ pc' = "dropoff"
    /\ rendered' = IF rendered < 2 THEN 2 ELSE rendered
    /\ UNCHANGED <<user_date, user_time, passenger_count, pick_state,
                   drop_state, button, now, date_data, time_data,
                   dt_raw, dt_valid, pickup_datetime_formatted, drop_marker,
                   side_msg, drop_msg, submit_msgs, requests, response,
                   before_submit>>

DropoffMap ==
    /\ pc = "dropoff"
    /\ drop_marker' = Marker(session_state, "dropoff_lat", "dropoff_lon")
    /\ session_state' =
           HandleClick(session_state, drop_state, "dropoff_lat", "dropoff_lon")
    /\ drop_msg' = ClickMessage(drop_state, DropoffError)
    /\ pc' = "submit"
    /\ rendered' = IF rendered < 3 THEN 3 ELSE rendered
    /\ UNCHANGED <<user_date, user_time, passenger_count, pick_state,
                   drop_state, button, now, date_data, time_data,
                   dt_raw, dt_valid, pickup_datetime_formatted, pick_marker,
                   side_msg, pick_msg, submit_msgs, requests, response,
                   before_submit>>

----------------------------------------------------------------------------
(* Estimate Fare *)

Error(text)   == [level |-> "error", text |-> text]
Success(text) == [level |-> "success", text |-> text]

InvalidTimeError == Error("Please select a valid future time.")
PickupOutside    == Error("Pickup outside NYC.")
DropoffOutside   == Error("Dropoff outside NYC.")
NoFareError      == Error("No 'fare' in API response.")
ApiError(code)   == Error(<<"API error ", code>>)
NetworkError(e)  == Error(<<"Network error: ", e>>)

(* float(fare), lines 252-253.  A float is [kind |-> "finite", neg, n, k],   *)
(* the double nearest to the decimal value (-)n / 10^k; or "nan" / "inf"    *)
(* with its sign; or the exception float() raises.  Strings are read by     *)
(* Python's float grammar: surrounding whitespace, a sign, then inf /       *)
(* infinity / nan in any case, or digits with an optional point and         *)
(* exponent, single underscores allowed between digits.  A string of the    *)
(* model holds Latin-1 characters; the digits and spaces of other scripts   *)
(* that float() also reads cannot be written in one.                        *)

Char(s, i) == SubSeq(s, i, i)

\* what float() strips: space, \t, \n, \v, \f, \r of ASCII, and the Unicode
\* spaces of Latin-1, U+0085 (next line) and U+00A0 (no-break space); the
\* separators \x1c-\x1f are not stripped
Whitespace == {" ", "\t", "\n", "\r", "\f", "", "", " "}
DigitChars == {"0", "1", "2", "3", "4", "5", "6", "7", "8", "9"}

DigitVal(c) ==
    CASE c = "0" -> 0 [] c = "1" -> 1 [] c = "2" -> 2 [] c = "3" -> 3
      [] c = "4" -> 4 [] c = "5" -> 5 [] c = "6" -> 6 [] c = "7" -> 7
      [] c = "8" -> 8 [] c = "9" -> 9

LowerChar(c) ==
    CASE c = "I" -> "i" [] c = "N" -> "n" [] c = "F" -> "f" [] c = "T" -> "t"
      [] c = "Y" -> "y" [] c = "A" -> "a" [] OTHER -> c

RECURSIVE Lower(_)
Lower(s) == IF s = "" THEN "" ELSE LowerChar(Char(s, 1)) \o Lower(Tail(s))

RECURSIVE LStrip(_)
LStrip(s) == IF s # "" /\ Char(s, 1) \in Whitespace THEN LStrip(Tail(s)) ELSE s

RECURSIVE RStrip(_)
RStrip(s) ==
    IF s # "" /\ Char(s, Len(s)) \in Whitespace
    THEN RStrip(SubSeq(s, 1, Len(s) - 1)) ELSE s

\* position of the first character of s that is in cs, or 0
RECURSIVE FindFrom(_, _, _)
FindFrom(s, cs, i) ==
    IF i > Len(s) THEN 0
    ELSE IF Char(s, i) \in cs THEN i ELSE FindFrom(s, cs, i + 1)

\* digits, with single underscores only between two digits
DigitGroup(s) ==
    /\ s # ""
    /\ \A i \in 1..Len(s) :
          \/ Char(s, i) \in DigitChars
          \/ /\ Char(s, i) = "_"
             /\ 1 < i /\ i < Len(s)
             /\ Char(s, i - 1) \in DigitChars
             /\ Char(s, i + 1) \in DigitChars

\* the number a digit group denotes, read after the digits acc
RECURSIVE DigitsValue(_, _)
DigitsValue(s, acc) ==
    IF s = "" THEN acc
    ELSE IF Char(s, 1) = "_" THEN DigitsValue(Tail(s), acc)
    ELSE DigitsValue(Tail(s), 10 * acc + DigitVal(Char(s, 1)))

RECURSIVE CountDigits(_)
CountDigits(s) ==
    IF s = "" THEN 0
    ELSE (IF Char(s, 1) = "_" THEN 0 ELSE 1) + CountDigits(Tail(s))

RECURSIVE Pow10(_)
Pow10(k) == IF k = 0 THEN 1 ELSE 10 * Pow10(k - 1)

\* decimal digits and binary digits of a natural number (0 has none)
RECURSIVE NumDigits(_)
NumDigits(n) == IF n = 0 THEN 0 ELSE 1 + NumDigits(n \div 10)
RECURSIVE Bits(_)
Bits(n) == IF n = 0 THEN 0 ELSE 1 + Bits(n \div 2)

ValueError    == [kind |-> "ValueError"]
TypeError     == [kind |-> "TypeError"]
OverflowError == [kind |-> "OverflowError"]
NaN           == [kind |-> "nan"]
Inf(neg)      == [kind |-> "inf", neg |-> neg]

\* the double nearest to (-)n / 10^k, with a negative k folded into n
Finite(neg, n, k) ==
    IF k >= 0 THEN [kind |-> "finite", neg |-> neg, n |-> n, k |-> k]
    ELSE [kind |-> "finite", neg |-> neg, n |-> n * Pow10(0 - k), k |-> 0]

\* The double format: 53 bits of mantissa; the largest double is
\* 1.7976931348623157e308 and a decimal at or above 1.797693134862315808e308
\* (halfway to 2^1024) rounds to infinity.
Mantissa     == 53
MaxExp10     == 308
MaxFloatLead == 179769313

\* the first nine digits of n > 0, padded with zeros
Lead9(n) ==
    IF NumDigits(n) <= 9 THEN n * Pow10(9 - NumDigits(n))
    ELSE n \div Pow10(NumDigits(n) - 9)

\* n / 10^k, n > 0, read as a double is infinite.  With the exponent 308 the
\* leading digits decide; a longer literal that starts with the digits of
\* the largest double is not decided here.
Overflows(n, k) ==
    LET e10 == NumDigits(n) - 1 - k
    IN  CASE e10 > MaxExp10 -> TRUE
          [] e10 < MaxExp10 -> FALSE
          [] e10 = MaxExp10 /\ Lead9(n) > MaxFloatLead -> TRUE
          [] e10 = MaxExp10 /\ Lead9(n) < MaxFloatLead -> FALSE
          [] e10 = MaxExp10 /\ Lead9(n) = MaxFloatLead /\ NumDigits(n) <= 9
               -> FALSE

\* an unsigned decimal literal: [int][.frac][(e|E)[sign]digits]
DecimalLiteral(neg, u) ==
    LET e     == FindFrom(u, {"e", "E"}, 1)
        mant  == IF e = 0 THEN u ELSE SubSeq(u, 1, e - 1)
        ex    == IF e = 0 THEN "" ELSE SubSeq(u, e + 1, Len(u))
        exneg == ex # "" /\ Char(ex, 1) = "-"
        exdig == IF ex # "" /\ Char(ex, 1) \in {"+", "-"} THEN Tail(ex) ELSE ex
        dot   == FindFrom(mant, {"."}, 1)
        ip    == IF dot = 0 THEN mant ELSE SubSeq(mant, 1, dot - 1)
        fp    == IF dot = 0 THEN "" ELSE SubSeq(mant, dot + 1, Len(mant))
        ok    == /\ ip # "" \/ fp # ""
                 /\ ip = "" \/ DigitGroup(ip)
                 /\ fp = "" \/ DigitGroup(fp)
                 /\ e = 0 \/ DigitGroup(exdig)
        exval == IF e = 0 THEN 0
                 ELSE IF exneg THEN 0 - DigitsValue(exdig, 0)
                 ELSE DigitsValue(exdig, 0)
        n     == DigitsValue(fp, DigitsValue(ip, 0))
        k     == CountDigits(fp) - exval
    IN  IF ~ok THEN ValueError
        ELSE IF n = 0 THEN Finite(neg, 0, 0)
        ELSE IF Overflows(n, k) THEN Inf(neg)
        ELSE Finite(neg, n, k)

\* float(s) of a string
FloatOfString(s) ==
    LET t   == RStrip(LStrip(s))
        neg == t # "" /\ Char(t, 1) = "-"
        u   == IF t # "" /\ Char(t, 1) \in {"+", "-"} THEN Tail(t) ELSE t
    IN  IF Lower(u) \in {"inf", "infinity"} THEN Inf(neg)
        ELSE IF Lower(u) = "nan" THEN NaN
        ELSE DecimalLiteral(neg, u)

\* float(fare) of a fare that is not None
FloatOf(fare) ==
    CASE fare.t = "number"   -> Finite(fare.v < 0,
                                       IF fare.v < 0 THEN 0 - fare.v ELSE fare.v,
                                       3)
      [] fare.t = "string"   -> FloatOfString(fare.s)
      [] fare.t = "bool"     -> Finite(FALSE, IF fare.b THEN 1 ELSE 0, 0)
      [] fare.t = "special"  ->
            (CASE fare.x = "NaN"       -> NaN
               [] fare.x = "Infinity"  -> Inf(FALSE)
               [] fare.x = "-Infinity" -> Inf(TRUE)
               [] fare.x = "-0.0"      -> Finite(TRUE, 0, 0))
      [] fare.t = "hugeint"  -> OverflowError
      [] fare.t = "compound" -> TypeError

\* float(fare) raises: ValueError for a string, TypeError for a list or
\* dict, OverflowError for an integer beyond the doubles
Unparsable(fare) ==
    FloatOf(fare).kind \in {"ValueError", "TypeError", "OverflowError"}

(* f"{x:.2f}": the double nearest to the decimal value, rounded to cents.  *)
(* The double is within 2^-53 of the decimal value, relatively; where that  *)
(* is less than the distance of the value from the nearest halfway point    *)
(* between two cents, the decimal digits decide.  A value exactly halfway,  *)
(* v = 10q + 5 thousandths, depends on the double: with                     *)
(* 2^e <= v/1000 < 2^(e+1) its mantissa is v * 2^(49-e) / 125 rounded to an *)
(* integer, so the double is below the decimal value when the remainder of  *)
(* v * 2^(49-e) by 125 is under half, above it when over, and equal to it   *)
(* (ties go to the even cent) when 0.  A value too long or too large for    *)
(* either argument has no case here.                                        *)

RECURSIVE Pow2Mod125(_)
Pow2Mod125(p) == IF p = 0 THEN 1 ELSE (2 * Pow2Mod125(p - 1)) % 125

\* the e with 2^e <= v/1000 < 2^(e+1), for v > 0
RECURSIVE Log2Up(_, _)
Log2Up(v, e) == IF 2 * v < 1000 THEN Log2Up(2 * v, e - 1) ELSE e - 1
RECURSIVE Log2Down(_, _)
Log2Down(v, e) == IF v >= 2000 THEN Log2Down(v \div 2, e + 1) ELSE e
Exponent(v) == IF v >= 1000 THEN Log2Down(v, 0) ELSE Log2Up(v, 0)

\* the halfway value v = 10q + 5 thousandths is shown as q + 1 cents
HalfwayRoundsUp(v) ==
    LET r == ((v % 125) * Pow2Mod125(49 - Exponent(v))) % 125
    IN  IF r = 0 THEN (v \div 10) % 2 = 1 ELSE r > 62

\* cents shown for the double nearest to n / 10^k
Cents(n, k) ==
    IF NumDigits(n) + 2 < k THEN 0
    ELSE IF k <= 2
    THEN (CASE Bits(n * Pow10(2 - k)) < Mantissa -> n * Pow10(2 - k))
    ELSE LET unit == Pow10(k - 2)
             q    == n \div unit
             rem  == n % unit
             gap  == IF 2 * rem < unit THEN unit - 2 * rem
                                       ELSE 2 * rem - unit
         IN  CASE gap = 0 /\ Bits(q) < Mantissa ->
                    IF HalfwayRoundsUp(10 * q + 5) THEN q + 1 ELSE q
               [] gap # 0 /\ Bits(n \div gap) < Mantissa ->
                    IF 2 * rem < unit THEN q ELSE q + 1

\* the text: a "-" for a negative value, the whole part, two decimals
TwoDecimals(neg, cents) ==
    IF neg
    THEN [sign |-> "-", whole |-> cents \div 100,
          decimals |-> <<(cents % 100) \div 10, cents % 10>>]
    ELSE [whole |-> cents \div 100,
          decimals |-> <<(cents % 100) \div 10, cents % 10>>]

\* f"{x:.2f}" of a float
FormatFloat(x) ==
    CASE x.kind = "finite" -> TwoDecimals(x.neg, Cents(x.n, x.k))
      [] x.kind = "nan"    -> "nan"
      [] x.kind = "inf"    -> IF x.neg THEN "-inf" ELSE "inf"

\* f"{x:.2f}" of a fare given in thousandths
Format2f(v) == FormatFloat(FloatOf(NumFare(v)))

EstimatedFare(fare) ==
    Success(<<"Estimated Fare: $", FormatFloat(FloatOf(fare))>>)

ValidateSkipsTime(valid, ss) ==
    IF ~is_within_nyc(ss["pickup_lon"], ss["pickup_lat"])
         THEN PickupOutside
    ELSE IF ~is_within_nyc(ss["dropoff_lon"], ss["dropoff_lat"])
         THEN DropoffOutside
    ELSE None

\* lines 230-236: the validation message, or None when the request goes out
Validate(valid, ss) ==
    IF ~valid THEN InvalidTimeError
    ELSE IF ~is_within_nyc(ss["pickup_lon"], ss["pickup_lat"])
         THEN PickupOutside
    ELSE IF ~is_within_nyc(ss["dropoff_lon"], ss["dropoff_lat"])
         THEN DropoffOutside
    ELSE None

\* lines 237-244
Params(formatted, ss, passengers) ==
    [pickup_datetime   |-> formatted,
     pickup_longitude  |-> ss["pickup_lon"],
     pickup_latitude   |-> ss["pickup_lat"],
     dropoff_longitude |-> ss["dropoff_lon"],
     dropoff_latitude  |-> ss["dropoff_lat"],
     passenger_count   |-> passengers]

DisplayKeyError(r) ==
    IF r.kind = "exception" THEN NetworkError(r.exc)
    ELSE IF r.status_code # 200 THEN ApiError(r.status_code)
    ELSE IF ~r.json THEN NetworkError("JSONDecodeError")
    ELSE IF ~r.object THEN NetworkError("AttributeError")
    ELSE IF ~r.has_fare THEN NetworkError("KeyError")
    ELSE IF r.fare.t = "null" THEN NoFareError
    ELSE IF Unparsable(r.fare) THEN NetworkError(FloatOf(r.fare).kind)
    ELSE EstimatedFare(r.fare)

\* lines 246-259: what is shown for an outcome of requests.get
Display(r) ==
    IF r.kind = "exception" THEN NetworkError(r.exc)
    ELSE IF r.status_code # 200 THEN ApiError(r.status_code)
    ELSE IF ~r.json THEN NetworkError("JSONDecodeError")
    ELSE IF ~r.object THEN NetworkError("AttributeError")
    ELSE IF ~r.has_fare THEN NoFareError
    ELSE IF r.fare.t = "null" THEN NoFareError
    ELSE IF Unparsable(r.fare) THEN NetworkError(FloatOf(r.fare).kind)
    ELSE EstimatedFare(r.fare)

EstimateFareResets ==
    /\ pc = "submit"
    /\ rendered' = 4
    /\ IF ~button
       THEN /\ pc' = "idle"
            /\ UNCHANGED <<session_state, submit_msgs, requests,
                           before_submit>>
       ELSE /\ before_submit' = Snapshot
            /\ IF Validate(dt_valid, session_state) # None
               THEN /\ submit_msgs' = <<Validate(dt_valid, session_state)>>
                    /\ session_state' = InitialSessionState
                    /\ pc' = "idle"
                    /\ UNCHANGED requests
               ELSE /\ requests' = <<Params(pickup_datetime_formatted,
                                            session_state, passenger_count)>>
                    /\ pc' = "request"
                    /\ UNCHANGED <<session_state, submit_msgs>>
    /\ UNCHANGED <<user_date, user_time, passenger_count,
                   pick_state, drop_state, button, now, date_data,
                   time_data, dt_raw, dt_valid, pickup_datetime_formatted,
                   pick_marker, drop_marker, side_msg, pick_msg, drop_msg,
                   response>>

\* lines 228-247: the button, the validation and the call of requests.get.
\* before_submit records the form as the handler finds it.
EstimateFare ==
    /\ pc = "submit"
    /\ rendered' = 4
    /\ IF ~button
       THEN /\ pc' = "idle"
            /\ UNCHANGED <<submit_msgs, requests, before_submit>>
       ELSE /\ before_submit' = Snapshot
            /\ IF Validate(dt_valid, session_state) # None
               THEN /\ submit_msgs' = <<Validate(dt_valid, session_state)>>
                    /\ pc' = "idle"
                    /\ UNCHANGED requests
               ELSE /\ requests' = <<Params(pickup_datetime_formatted,
                                            session_state, passenger_count)>>
                    /\ pc' = "request"
                    /\ UNCHANGED submit_msgs
    /\ UNCHANGED <<session_state, user_date, user_time, passenger_count,
                   pick_state, drop_state, button, now, date_data,
                   time_data, dt_raw, dt_valid, pickup_datetime_formatted,
                   pick_marker, drop_marker, side_msg, pick_msg, drop_msg,
                   response>>

\* lines 247-259: requests.get returns or raises, within its timeout, and
\* the handler shows the result
ShowResult ==
    /\ pc = "request"
    /\ \E r \in Responses :
         /\ response' = r
         /\ submit_msgs' = <<Display(r)>>
    /\ pc' = "idle"
    /\ UNCHANGED <<session_state, user_date, user_time, passenger_count,
                   pick_state, drop_state, button, now, date_data,
                   time_data, dt_raw, dt_valid, pickup_datetime_formatted,
                   pick_marker, drop_marker, side_msg, pick_msg, drop_msg,
                   requests, before_submit, rendered>>

----------------------------------------------------------------------------

Next ==
    \/ \E p \in ClickPoints : ClickPickup(p)
    \/ \E p \in ClickPoints : ClickDropoff(p)
    \/ \E d \in UserDates : SetDate(d)
    \/ \E t \in UserTimes : SetTime(t)
    \/ \E n \in Passengers : SetPassengers(n)
    \/ PressButton
    \/ Sidebar
    \/ PickupMap
    \/ DropoffMap
    \/ EstimateFare
    \/ ShowResult

Spec == Init /\ [][Next]_vars

----------------------------------------------------------------------------
(* Properties *)

\* the box of the specification, in hundredths of a degree
InBox(lon, lat) == -7425 < lon /\ lon < -7370 /\ 4050 < lat /\ lat < 4092

OnBoundary(lon, lat) == lon \in {-7425, -7370} \/ lat \in {4050, 4092}

\* a run of the script has reached its end and the page is showing its
\* result
Shown == pc = "idle"

\* ... and that run was started by the Estimate Fare button
Submitted == pc = "idle" /\ button

Stored(latkey, lonkey) == [lat |-> session_state[latkey],
                           lng |-> session_state[lonkey]]

\* C1: is_within_nyc is true exactly for the points strictly inside the box
\* -74.25 < lon < -73.70, 40.50 < lat < 40.92: for every point a map has
\* reported, the click handler accepted it iff it is strictly inside, and
\* a point on a boundary is rejected.
C1_StrictBox ==
    /\ \A st \in {pick_state, drop_state} :
          Clicked(st) =>
            LET p == st.last_clicked
            IN  /\ is_within_nyc(p.lng, p.lat) <=> InBox(p.lng, p.lat)
                /\ OnBoundary(p.lng, p.lat) => ~is_within_nyc(p.lng, p.lat)
    /\ (pc \in {"dropoff", "submit", "idle"} /\ Clicked(pick_state)) =>
          LET p == pick_state.last_clicked
          IN  (pick_msg = None) <=> InBox(p.lng, p.lat)
    /\ (pc \in {"submit", "idle"} /\ Clicked(drop_state)) =>
          LET p == drop_state.last_clicked
          IN  (drop_msg = None) <=> InBox(p.lng, p.lat)

\* the point (lon=-74.25, lat=40.75) on the boundary was clicked and refused
C1_Witness ==
    /\ Shown
    /\ pick_state.last_clicked = [lat |-> 4075, lng |-> -7425]
    /\ pick_msg = PickupError
    /\ drop_state.last_clicked = [lat |-> 4051, lng |-> -7424]
    /\ drop_msg = None

\* C2: on either map, a click that fails is_within_nyc leaves the stored
\* coordinates as they were and shows that map's geofence error; a click
\* that passes replaces both stored fields of that endpoint (and nothing
\* else) with the clicked latitude and longitude.
C2_ClickHandling ==
    [][ /\ (pc = "pickup" /\ pc' = "dropoff" /\ Clicked(pick_state)) =>
             LET p == pick_state.last_clicked
             IN  IF is_within_nyc(p.lng, p.lat)
                 THEN /\ session_state' =
                            [session_state EXCEPT !["pickup_lat"] = p.lat,
                                                  !["pickup_lon"] = p.lng]
                      /\ pick_msg' = None
                 ELSE /\ session_state' = session_state
                      /\ pick_msg' = PickupError
        /\ (pc = "dropoff" /\ pc' = "submit" /\ Clicked(drop_state)) =>
             LET p == drop_state.last_clicked
             IN  IF is_within_nyc(p.lng, p.lat)
                 THEN /\ session_state' =
                            [session_state EXCEPT !["dropoff_lat"] = p.lat,
                                                  !["dropoff_lon"] = p.lng]
                      /\ drop_msg' = None
                 ELSE /\ session_state' = session_state
                      /\ drop_msg' = DropoffError
      ]_vars

\* an accepted pickup is kept when a later click outside the box is refused,
\* and an accepted dropoff click has replaced both dropoff fields
C2_Witness ==
    /\ Shown
    /\ pick_state.last_clicked = [lat |-> 4100, lng |-> -7500]
    /\ pick_msg = PickupError
    /\ Stored("pickup_lat", "pickup_lon") = [lat |-> 4051, lng |-> -7424]
    /\ drop_state.last_clicked = [lat |-> 4076, lng |-> -7399]
    /\ drop_msg = None
    /\ Stored("dropoff_lat", "dropoff_lon") = [lat |-> 4076, lng |-> -7399]

\* the first precondition of the specification that fails, in its order
FirstFailure ==
    IF ~(Combine(date_data, time_data) >= now) THEN "time"
    ELSE IF ~InBox(session_state["pickup_lon"], session_state["pickup_lat"])
         THEN "pickup"
    ELSE IF ~InBox(session_state["dropoff_lon"], session_state["dropoff_lat"])
         THEN "dropoff"
    ELSE "none"

MessageOf(failure) ==
    CASE failure = "time"    -> InvalidTimeError
      [] failure = "pickup"  -> PickupOutside
      [] failure = "dropoff" -> DropoffOutside

\* C3: on every submit the preconditions are checked in the order time,
\* pickup geofence, dropoff geofence; the first that fails decides the one
\* message the handler shows, the three messages differ, and no request is
\* issued; exactly one HTTP GET is issued when and only when all three pass
\* (and none in a run the button did not start), also while the request is
\* in flight.
C3_SubmitPreconditions ==
    /\ Cardinality({InvalidTimeError, PickupOutside, DropoffOutside}) = 3
    /\ requests # <<>> =>
          button /\ Len(requests) = 1 /\ FirstFailure = "none"
    /\ (button /\ pc \in {"request", "idle"}) =>
          /\ (Len(requests) = 1) <=> (FirstFailure = "none")
          /\ FirstFailure # "none" =>
                submit_msgs = <<MessageOf(FirstFailure)>>
    /\ Submitted => Len(submit_msgs) = 1
    /\ ~button => requests = <<>> /\ submit_msgs = <<>>

\* a submit with a past time was refused with the time message, no request
C3_Witness ==
    /\ Submitted
    /\ dt_raw < now
    /\ submit_msgs = <<InvalidTimeError>>
    /\ requests = <<>>

\* the instant a formatted "YYYY-MM-DD HH:MM:SS" string denotes
ParseDatetime(f) == f.ymd * Day + f.H * Hour + f.M * Minute + f.S

\* C4: a submit whose date+time is before the wall-clock reading of its run
\* is refused with the time-validation error; one at or after it passes the
\* time check; so the pickup_datetime of an issued request is >= that
\* reading.
C4_TimeValidation ==
    /\ Submitted =>
          /\ Combine(date_data, time_data) < now =>
                submit_msgs = <<InvalidTimeError>> /\ requests = <<>>
          /\ Combine(date_data, time_data) >= now =>
                submit_msgs # <<InvalidTimeError>>
    /\ requests # <<>> =>
          ParseDatetime(requests[1].pickup_datetime) >= now

\* a request went out for a date+time equal to the wall-clock reading
C4_Witness ==
    /\ Submitted
    /\ requests # <<>>
    /\ ParseDatetime(requests[1].pickup_datetime) = now

\* the earliest instant of the 15-minute grid that is not before n
NextGrid(n) == ((n + 15 * Minute - 1) \div (15 * Minute)) * (15 * Minute)

\* C5: for every wall-clock reading the default of the time input is the
\* time of day of the earliest 15-minute grid instant that is not before the
\* reading (the reading itself when it is on the grid).
C5_DefaultTimeRoundsUp ==
    (pc # "sidebar" /\ now # Unset /\ user_time = Unset) =>
        time_data = TimeOf(NextGrid(now))

\* C6: for every outcome of the fare request: a transport or timeout failure
\* shows a network error; a non-200 status shows an error with the status
\* code; a 200 JSON object without a fare key shows the missing-fare error;
\* a 200 object whose fare is a number shows "Estimated Fare: $" and the fare
\* rounded to exactly two decimals (12.5, also given as "12.5", gives 12.50).
C6_ResponseHandling ==
    (Submitted /\ requests # <<>>) =>
      LET r == response
          m == submit_msgs[1]
      IN  /\ Len(submit_msgs) = 1
          /\ r.kind = "exception" =>
                m.level = "error" /\ m.text = <<"Network error: ", r.exc>>
          /\ (r.kind = "http" /\ r.status_code # 200) =>
                m.level = "error" /\ m.text = <<"API error ", r.status_code>>
          /\ (r.kind = "http" /\ r.status_code = 200 /\ r.json /\ r.object
                 /\ ~r.has_fare) =>
                m = [level |-> "error", text |-> "No 'fare' in API response."]
          /\ (r.kind = "http" /\ r.status_code = 200 /\ r.json /\ r.object
                 /\ r.has_fare /\ r.fare = StrFare("12.5")) =>
                m = [level |-> "success",
                     text |-> <<"Estimated Fare: $",
                                [whole |-> 12, decimals |-> <<5, 0>>]>>]
          /\ (r.kind = "http" /\ r.status_code = 200 /\ r.json /\ r.object
                 /\ r.has_fare /\ r.fare.t = "number") =>
                /\ m.level = "success"
                /\ m.text[1] = "Estimated Fare: $"
                /\ Len(m.text[2].decimals) = 2
                /\ \A i \in 1..2 : m.text[2].decimals[i] \in 0..9
                /\ LET shown == m.text[2].whole * 1000
                                  + m.text[2].decimals[1] * 100
                                  + m.text[2].decimals[2] * 10
                   IN  shown - r.fare.v \in -5..5
                /\ r.fare.v = 12500 =>
                      m.text[2] = [whole |-> 12, decimals |-> <<5, 0>>]

\* the API answered {"fare": 12.5} and the page shows Estimated Fare: $12.50
C6_Witness ==
    /\ Submitted
    /\ requests # <<>>
    /\ response.kind = "http" /\ response.status_code = 200
    /\ response.json /\ response.object /\ response.has_fare
    /\ response.fare = NumFare(12500)
    /\ submit_msgs = <<[level |-> "success",
                        text |-> <<"Estimated Fare: $",
                                   [whole |-> 12, decimals |-> <<5, 0>>]>>]>>

\* a 200 response whose body is not JSON or whose fare is not a number
Malformed(r) ==
    /\ r.kind = "http" /\ r.status_code = 200
    /\ \/ ~r.json
       \/ /\ r.object /\ r.has_fare /\ r.fare.t # "null"
          /\ Unparsable(r.fare)

\* the exceptions the handler's except clause can meet
Exceptions == {"ReadTimeout", "ConnectionError", "JSONDecodeError",
               "AttributeError", "ValueError", "TypeError", "OverflowError"}

IsNetworkError(m) == m \in {NetworkError(e) : e \in Exceptions}

\* C7: a 200 response with a malformed body or fare is reported as a protocol
\* error, like a missing fare or a non-200 status, not as a network error.
C7_MalformedIsProtocolError ==
    (Submitted /\ requests # <<>> /\ Malformed(response)) =>
        /\ submit_msgs[1].level = "error"
        /\ ~IsNetworkError(submit_msgs[1])

SubmitFailed == Submitted /\ submit_msgs[1].level = "error"

\* C8: after a submit that ends in a failure, the four stored coordinates,
\* the selected date and time and the passenger count are what they were
\* when the button handler began, and the form takes further clicks and
\* submits.
C8_FailureLeavesState ==
    SubmitFailed =>
      /\ before_submit.session_state = session_state
      /\ before_submit.user_date = user_date
      /\ before_submit.user_time = user_time
      /\ before_submit.passenger_count = passenger_count
      /\ ENABLED PressButton
      /\ \A p \in ClickPoints : ENABLED ClickPickup(p) /\ ENABLED ClickDropoff(p)

\* the API answered 500 with a non-default pickup and a chosen time stored
C8_Witness ==
    /\ SubmitFailed
    /\ requests # <<>>
    /\ response.kind = "http" /\ response.status_code = 500
    /\ submit_msgs = <<[level |-> "error", text |-> <<"API error ", 500>>]>>
    /\ Stored("pickup_lat", "pickup_lon") = [lat |-> 4076, lng |-> -7399]
    /\ user_time = HMS(10, 8, 0)
    /\ passenger_count = 8

\* C9: whatever was clicked or changed, the stored pickup and dropoff are
\* strictly inside the box, and an issued request carries a pickup and a
\* dropoff inside the box, equal to the stored ones.
C9_StoredInBox ==
    /\ InBox(session_state["pickup_lon"], session_state["pickup_lat"])
    /\ InBox(session_state["dropoff_lon"], session_state["dropoff_lat"])
    /\ requests # <<>> =>
          LET q == requests[1]
          IN  /\ InBox(q.pickup_longitude, q.pickup_latitude)
              /\ InBox(q.dropoff_longitude, q.dropoff_latitude)
              /\ q.pickup_longitude  = session_state["pickup_lon"]
              /\ q.pickup_latitude   = session_state["pickup_lat"]
              /\ q.dropoff_longitude = session_state["dropoff_lon"]
              /\ q.dropoff_latitude  = session_state["dropoff_lat"]

\* a request went out after clicks outside the box on both maps
C9_Witness ==
    /\ Submitted
    /\ requests # <<>>
    /\ pick_state.last_clicked = [lat |-> 4092, lng |-> -7398]
    /\ drop_state.last_clicked = [lat |-> 4100, lng |-> -7500]
    /\ Stored("pickup_lat", "pickup_lon") = [lat |-> 4051, lng |-> -7424]

\* C10: at the end of every run of the script each map's marker is drawn at
\* the endpoint's stored coordinate, also in the run that accepts a click.
C10_MarkerAtStored ==
    Shown =>
      /\ pick_marker = Marker(session_state, "pickup_lat", "pickup_lon")
      /\ drop_marker = Marker(session_state, "dropoff_lat", "dropoff_lon")

====
